---------------------------- MODULE Spec2Model ----------------------------
(***************************************************************************)
(* A model of the AI Workflow Builder service: the request pipeline of     *)
(* POST /process (request-shape validation, input guard, prompt builder,   *)
(* retry orchestrator, boundary error conversion) and its pure helpers     *)
(* (sanitize_text, validate_request_input, _parse_json, _validate_schema,  *)
(* WorkflowError).                                                         *)
(*                                                                         *)
(* Text is modelled as a sequence of characters, each character a string   *)
(* of length one (three code points are written by name: "U+0130" is       *)
(* LATIN CAPITAL LETTER I WITH DOT ABOVE, "U+0307" is COMBINING DOT ABOVE  *)
(* and "U+0060" is GRAVE ACCENT).  Error details and internal details are  *)
(* sequences of tokens, so that "x appears in y" is the                    *)
(* contiguous-subsequence test.                                            *)
(***************************************************************************)
EXTENDS Integers, Sequences, FiniteSets, TLC

VARIABLES
    settings,     \* the immutable configuration snapshot (app/core/config.py)
    raw,          \* the JSON body of the incoming POST /process
    body,         \* the ProcessRequest built from it (NoValue before / on 422)
    pc,           \* position of the request inside process_document
    attempt,      \* call_gemini: the attempt counter
    last_error,   \* call_gemini: the last recorded WorkflowError
    prompt,       \* call_gemini: the (system_prompt, user_message) pair
    calls,        \* number of client.post calls issued so far
    sleeps,       \* the asyncio.sleep durations requested so far, in order
    outcomes,     \* the transport outcomes received so far, in order
    raised,       \* every WorkflowError constructed while serving the request
    retry_count,  \* meta["retry_count"] of a successful call_gemini
    cancelled,    \* the request's task was cancelled at a suspension point
    response,     \* the JSONResponse returned to the caller
    sText,        \* sanitize_text harness: the current text
    sPrev,        \* sanitize_text harness: the argument of the last application
    sApplied,     \* sanitize_text harness: number of applications so far
    eErr,         \* boundary harness: the WorkflowError raised by call_gemini
    eResp,        \* boundary harness: the JSONResponse built from it
    jText,        \* _parse_json harness: the text of a JSON object J
    jForm,        \* _parse_json harness: the form in which J is presented
    jRaw,         \* _parse_json harness: the argument, J in that form
    jOut,         \* _parse_json harness: what _parse_json did (NoValue before)
    running,      \* event loop: the request whose coroutine is running
    parked        \* event loop: the frames of the other requests

vars == <<settings, raw, body, pc, attempt, last_error, prompt, calls, sleeps,
          outcomes, raised, retry_count, cancelled, response, sText, sPrev,
          sApplied,
          eErr, eResp, jText, jForm, jRaw, jOut, running, parked>>

pipelineVars == <<settings, raw, body, pc, attempt, last_error, prompt, calls,
                  sleeps, outcomes, raised, retry_count, cancelled,
                  response>>

sanitizeVars == <<sText, sPrev, sApplied>>

boundaryVars == <<eErr, eResp>>

parseVars == <<jText, jForm, jRaw, jOut>>

loopVars == <<running, parked>>

NoValue == [none |-> TRUE]

-----------------------------------------------------------------------------
(* Generic text helpers (Python str semantics on character sequences).      *)

\* A local assignment x = v followed by the code Op that reads x: v is
\* evaluated once and Op is applied to its value.
Bind(v, Op(_)) == CHOOSE out \in {Op(x) : x \in {v}} : TRUE

Min(a, b) == IF a <= b THEN a ELSE b

\* s[:n] for n >= 0
Prefix(s, n) == SubSeq(s, 1, Min(n, Len(s)))

\* s[n:] for n >= 0
Suffix(s, n) == IF n >= Len(s) THEN <<>> ELSE SubSeq(s, n + 1, Len(s))

\* needle in hay
Contains(hay, needle) ==
    \E i \in 1..(Len(hay) - Len(needle) + 1) :
        SubSeq(hay, i, i + Len(needle) - 1) = needle

\* hay.index(needle), 0-based, for a needle that occurs
IndexOf(hay, needle) ==
    (CHOOSE i \in 1..(Len(hay) - Len(needle) + 1) :
        /\ SubSeq(hay, i, i + Len(needle) - 1) = needle
        /\ \A j \in 1..(i - 1) : SubSeq(hay, j, j + Len(needle) - 1) # needle) - 1

RECURSIVE Flatten(_)
Flatten(ss) == IF ss = <<>> THEN <<>> ELSE Head(ss) \o Flatten(Tail(ss))

RECURSIVE Repeat(_, _)
Repeat(c, n) == IF n <= 0 THEN <<>> ELSE <<c>> \o Repeat(c, n - 1)

UpperAlpha == <<"A","B","C","D","E","F","G","H","I","J","K","L","M",
                "N","O","P","Q","R","S","T","U","V","W","X","Y","Z">>

LowerAlpha == <<"a","b","c","d","e","f","g","h","i","j","k","l","m",
                "n","o","p","q","r","s","t","u","v","w","x","y","z">>

\* str.lower() of one character: a sequence, because U+0130 lowers to the
\* two code points "i" U+0307.
LowerChar(c) ==
    IF \E k \in 1..26 : UpperAlpha[k] = c
    THEN <<LowerAlpha[CHOOSE k \in 1..26 : UpperAlpha[k] = c]>>
    ELSE IF c = "U+0130" THEN <<"i", "U+0307">>
    ELSE <<c>>

\* str.lower()
Lower(s) == Flatten([i \in 1..Len(s) |-> LowerChar(s[i])])

IsSpace(c) == c \in {" ", "\t", "\n"}

RECURSIVE LStrip(_)
LStrip(s) == IF s # <<>> /\ IsSpace(Head(s)) THEN LStrip(Tail(s)) ELSE s

RECURSIVE RStrip(_)
RStrip(s) ==
    IF s # <<>> /\ IsSpace(s[Len(s)]) THEN RStrip(SubSeq(s, 1, Len(s) - 1)) ELSE s

\* str.strip()
Strip(s) == RStrip(LStrip(s))

-----------------------------------------------------------------------------
(* app/services/prompt.py                                                   *)

_INJECTION_PATTERNS == <<
    <<"i","g","n","o","r","e"," ","p","r","e","v","i","o","u","s"," ","i","n","s","t","r","u","c","t","i","o","n","s">>,
    <<"i","g","n","o","r","e"," ","a","l","l"," ","p","r","e","v","i","o","u","s"," ","i","n","s","t","r","u","c","t","i","o","n","s">>,
    <<"d","i","s","r","e","g","a","r","d"," ","t","h","e"," ","a","b","o","v","e">>,
    <<"f","o","r","g","e","t"," ","y","o","u","r"," ","i","n","s","t","r","u","c","t","i","o","n","s">>,
    <<"n","e","w"," ","i","n","s","t","r","u","c","t","i","o","n",":">>,
    <<"s","y","s","t","e","m"," ","p","r","o","m","p","t",":">>,
    <<"y","o","u"," ","a","r","e"," ","n","o","w">>,
    <<"a","c","t"," ","a","s"," ","i","f">>,
    <<"[","s","y","s","t","e","m","]">>,
    <<"[","[","s","y","s","t","e","m","]","]">> >>

REMOVED == <<"[","R","E","M","O","V","E","D","]">>

\* One iteration of the loop of sanitize_text: the pattern is looked up in
\* the lowered text and, when present, its FIRST occurrence is cut out of
\* the original text at the index found in the lowered text.
SanitizeOne(text, pattern) ==
    Bind(Lower(text), LAMBDA lowered :
        IF Contains(lowered, pattern)
        THEN LET idx == IndexOf(lowered, pattern) IN
             Prefix(text, idx) \o REMOVED \o Suffix(text, idx + Len(pattern))
        ELSE text)

\* The loop over the patterns, from pattern k on.
RECURSIVE SanitizeFrom(_, _)
SanitizeFrom(text, k) ==
    IF k > Len(_INJECTION_PATTERNS) THEN text
    ELSE Bind(SanitizeOne(text, _INJECTION_PATTERNS[k]),
              LAMBDA replaced : SanitizeFrom(replaced, k + 1))

sanitize_text(text) == SanitizeFrom(text, 1)

\* Some injection phrase occurs in the text, in any letter case.
HasInjectionPhrase(text) ==
    \E k \in 1..Len(_INJECTION_PATTERNS) :
        Contains(Lower(text), _INJECTION_PATTERNS[k])

\* build_prompt: the system prompt is a fixed text; the user message embeds
\* the two sanitized texts between their delimiters.
build_prompt(request) ==
    [system |-> "_SYSTEM_PROMPT",
     user   |-> <<"<INSTRUCTION>">> \o sanitize_text(request.instruction)
                \o <<"</INSTRUCTION>", "<DOCUMENT>">>
                \o sanitize_text(request.document) \o <<"</DOCUMENT>">>]

-----------------------------------------------------------------------------
(* app/core/config.py: the settings are read from the environment; the     *)
(* model runs a scaled-down configuration in which every guard can fire.    *)

max_instruction_chars == 12

max_document_chars == 22

\* below max_instruction_chars + max_document_chars, so that the combined
\* guard is reachable
max_combined_chars == 33

\* max_retries is drawn from 0..MaxRetries
MaxRetries == 2

retry_delay_seconds == 1

Settings ==
    [max_retries : 0..MaxRetries, gemini_api_key_set : BOOLEAN]

-----------------------------------------------------------------------------
(* app/core/errors.py                                                       *)

INPUT_TOO_LARGE == "input_too_large"
INSTRUCTION_MISSING == "instruction_missing"
DOCUMENT_MISSING == "document_missing"
LLM_NON_JSON_RESPONSE == "llm_non_json_response"
LLM_SCHEMA_INVALID == "llm_schema_invalid"
LLM_TIMEOUT == "llm_timeout"
LLM_API_ERROR == "llm_api_error"
LLM_EMPTY_RESPONSE == "llm_empty_response"
RETRIES_EXHAUSTED == "retries_exhausted"
INTERNAL_ERROR == "internal_error"

ErrorCode ==
    {INPUT_TOO_LARGE, INSTRUCTION_MISSING, DOCUMENT_MISSING,
     LLM_NON_JSON_RESPONSE, LLM_SCHEMA_INVALID, LLM_TIMEOUT, LLM_API_ERROR,
     LLM_EMPTY_RESPONSE, RETRIES_EXHAUSTED, INTERNAL_ERROR}

\* Mutant: the timeout kind is filed with the other upstream failures.
ERROR_STATUS_MAP_Timeout502(code) ==
    CASE code \in {INPUT_TOO_LARGE, INSTRUCTION_MISSING, DOCUMENT_MISSING} -> 400
      [] code = INTERNAL_ERROR -> 500
      [] OTHER -> 502

ERROR_STATUS_MAP(code) ==
    CASE code = INPUT_TOO_LARGE       -> 400
      [] code = INSTRUCTION_MISSING   -> 400
      [] code = DOCUMENT_MISSING      -> 400
      [] code = LLM_NON_JSON_RESPONSE -> 502
      [] code = LLM_SCHEMA_INVALID    -> 502
      [] code = LLM_TIMEOUT           -> 504
      [] code = LLM_API_ERROR         -> 502
      [] code = LLM_EMPTY_RESPONSE    -> 502
      [] code = RETRIES_EXHAUSTED     -> 502
      [] code = INTERNAL_ERROR        -> 500

\* code.value.replace("_", " ").capitalize()
DefaultDetail(code) ==
    CASE code = INPUT_TOO_LARGE       -> <<"Input too large">>
      [] code = INSTRUCTION_MISSING   -> <<"Instruction missing">>
      [] code = DOCUMENT_MISSING      -> <<"Document missing">>
      [] code = LLM_NON_JSON_RESPONSE -> <<"Llm non json response">>
      [] code = LLM_SCHEMA_INVALID    -> <<"Llm schema invalid">>
      [] code = LLM_TIMEOUT           -> <<"Llm timeout">>
      [] code = LLM_API_ERROR         -> <<"Llm api error">>
      [] code = LLM_EMPTY_RESPONSE    -> <<"Llm empty response">>
      [] code = RETRIES_EXHAUSTED     -> <<"Retries exhausted">>
      [] code = INTERNAL_ERROR        -> <<"Internal error">>

\* WorkflowError.__init__
WorkflowError(code, detail, internal) ==
    [code     |-> code,
     detail   |-> IF detail = <<>> THEN DefaultDetail(code) ELSE detail,
     internal |-> internal]

\* WorkflowError.status_code
status_code(exc) ==
    IF exc.code \in ErrorCode THEN ERROR_STATUS_MAP(exc.code) ELSE 500

\* Mutant: the internal diagnostic is sent as the detail.
to_response_Internal(exc) == [error |-> exc.code, detail |-> exc.internal]

\* WorkflowError.to_response
to_response(exc) == [error |-> exc.code, detail |-> exc.detail]

-----------------------------------------------------------------------------
(* app/models/schemas.py: ProcessRequest                                    *)

InstructionMinLength == 10

DocumentMinLength == 20

\* A field of the JSON body: absent, or a string.
Field(present, value) == [present |-> present, value |-> value]

\* The pydantic errors of one field: required, then min_length on the raw
\* string (the strip validators run after the length constraint).
FieldErrors(name, field, min_length) ==
    IF ~field.present THEN <<"body.", name, ": Field required">>
    ELSE IF Len(field.value) < min_length
         THEN <<"body.", name, ": String should have at least min_length characters">>
    ELSE <<>>

RequestValidationErrors(rawBody) ==
    <<FieldErrors("instruction", rawBody.instruction, InstructionMinLength),
      FieldErrors("document", rawBody.document, DocumentMinLength)>>

\* ProcessRequest(**rawBody) for a body without validation errors.
ProcessRequest(rawBody) ==
    [instruction |-> Strip(rawBody.instruction.value),
     document    |-> Strip(rawBody.document.value)]

-----------------------------------------------------------------------------
(* app/services/validator.py                                                *)

InstructionTooLong ==
    WorkflowError(INPUT_TOO_LARGE,
        <<"Instruction exceeds maximum length of {max} characters. Received: {len}.">>,
        <<>>)

InstructionBlank ==
    WorkflowError(INSTRUCTION_MISSING,
        <<"Instruction cannot be blank or whitespace only.">>, <<>>)

DocumentTooLong ==
    WorkflowError(INPUT_TOO_LARGE,
        <<"Document exceeds maximum length of {max} characters. Received: {len}. Please truncate or summarise the document before submitting.">>,
        <<>>)

DocumentBlank ==
    WorkflowError(DOCUMENT_MISSING,
        <<"Document cannot be blank or whitespace only.">>, <<>>)

CombinedTooLong ==
    WorkflowError(INPUT_TOO_LARGE,
        <<"Combined input length ({combined} chars) exceeds the service limit of {max} characters.">>,
        <<>>)

\* Mutant: the document length guard compares against the combined limit.
validate_request_input_WrongLimit(request) ==
    IF Len(request.instruction) > max_instruction_chars THEN InstructionTooLong
    ELSE IF Strip(request.instruction) = <<>> THEN InstructionBlank
    ELSE IF Len(request.document) > max_combined_chars THEN DocumentTooLong
    ELSE IF Strip(request.document) = <<>> THEN DocumentBlank
    ELSE IF Len(request.instruction) + Len(request.document) > max_combined_chars
    THEN CombinedTooLong
    ELSE NoValue

\* Mutant: the document blank guard tests the instruction a second time.
validate_request_input_WrongField(request) ==
    IF Len(request.instruction) > max_instruction_chars THEN InstructionTooLong
    ELSE IF Strip(request.instruction) = <<>> THEN InstructionBlank
    ELSE IF Len(request.document) > max_document_chars THEN DocumentTooLong
    ELSE IF Strip(request.instruction) = <<>> THEN DocumentBlank
    ELSE IF Len(request.instruction) + Len(request.document) > max_combined_chars
    THEN CombinedTooLong
    ELSE NoValue

\* Mutant: the document guards run before the instruction guards.
validate_request_input_DocumentFirst(request) ==
    IF Len(request.document) > max_document_chars THEN DocumentTooLong
    ELSE IF Strip(request.document) = <<>> THEN DocumentBlank
    ELSE IF Len(request.instruction) > max_instruction_chars THEN InstructionTooLong
    ELSE IF Strip(request.instruction) = <<>> THEN InstructionBlank
    ELSE IF Len(request.instruction) + Len(request.document) > max_combined_chars
    THEN CombinedTooLong
    ELSE NoValue

\* validate_request_input: NoValue when every guard passes, else the
\* WorkflowError raised by the first failing guard.
validate_request_input(request) ==
    IF Len(request.instruction) > max_instruction_chars THEN InstructionTooLong
    ELSE IF Strip(request.instruction) = <<>> THEN InstructionBlank
    ELSE IF Len(request.document) > max_document_chars THEN DocumentTooLong
    ELSE IF Strip(request.document) = <<>> THEN DocumentBlank
    ELSE IF Len(request.instruction) + Len(request.document) > max_combined_chars
    THEN CombinedTooLong
    ELSE NoValue

-----------------------------------------------------------------------------
(* json.loads on character sequences.  The texts drawn contain no escape   *)
(* sequence, sign, fraction, exponent or digit 0, so these parts of the     *)
(* JSON grammar are left out; everything else follows json.decoder.         *)

JString(chars) == [type |-> "string", chars |-> chars, items |-> <<>>]
JNumber(digits) == [type |-> "number", chars |-> digits, items |-> <<>>]
JLiteral(word) == [type |-> "literal", chars |-> word, items |-> <<>>]
JArray(items) == [type |-> "array", chars |-> <<>>, items |-> items]
\* a dict, as the sequence of its members [key, value] in insertion order
JObject(members) == [type |-> "object", chars |-> <<>>, items |-> members]

JSONDecodeError == [ok |-> FALSE, value |-> JLiteral(<<>>), end |-> 0]

\* a value was decoded and the scan goes on at position end
Parsed(value, end) == [ok |-> TRUE, value |-> value, end |-> end]

Digits == {"1", "2", "3", "4", "5", "6", "7", "8", "9"}

Literals == << <<"t","r","u","e">>, <<"f","a","l","s","e">>, <<"n","u","l","l">>,
               <<"N","a","N">>, <<"I","n","f","i","n","i","t","y">> >>

\* s[i - 1:].startswith(word), for a 1-based position i
StartsWith(s, i, word) ==
    /\ i + Len(word) - 1 <= Len(s)
    /\ SubSeq(s, i, i + Len(word) - 1) = word

\* the first position >= i that holds no whitespace
RECURSIVE SkipWs(_, _)
SkipWs(s, i) == IF i <= Len(s) /\ IsSpace(s[i]) THEN SkipWs(s, i + 1) ELSE i

\* the first position >= i that holds no digit
RECURSIVE ScanDigits(_, _)
ScanDigits(s, i) == IF i <= Len(s) /\ s[i] \in Digits THEN ScanDigits(s, i + 1) ELSE i

\* the position of the quote that closes a string whose content starts at
\* i, or 0: a control character inside a string is an error (strict mode)
RECURSIVE ScanString(_, _)
ScanString(s, i) ==
    IF i > Len(s) \/ s[i] \in {"\n", "\t", "\\"} THEN 0
    ELSE IF s[i] = "\"" THEN i
    ELSE ScanString(s, i + 1)

\* d[key] = value
RECURSIVE Put(_, _, _)
Put(members, key, value) ==
    IF members = <<>> THEN <<[key |-> key, value |-> value]>>
    ELSE IF Head(members).key = key
    THEN <<[key |-> key, value |-> value]>> \o Tail(members)
    ELSE <<Head(members)>> \o Put(Tail(members), key, value)

RECURSIVE ParseValue(_, _), ParseElements(_, _, _), ParseMembers(_, _, _)

\* scan_once: the value that starts at position i
ParseValue(s, i) ==
    IF i > Len(s) THEN JSONDecodeError
    ELSE IF s[i] = "\""
    THEN Bind(ScanString(s, i + 1), LAMBDA close :
            IF close = 0 THEN JSONDecodeError
            ELSE Parsed(JString(SubSeq(s, i + 1, close - 1)), close + 1))
    ELSE IF s[i] \in Digits
    THEN Bind(ScanDigits(s, i), LAMBDA e : Parsed(JNumber(SubSeq(s, i, e - 1)), e))
    ELSE IF s[i] = "["
    THEN Bind(SkipWs(s, i + 1), LAMBDA j :
            IF j <= Len(s) /\ s[j] = "]" THEN Parsed(JArray(<<>>), j + 1)
            ELSE ParseElements(s, j, <<>>))
    ELSE IF s[i] = "{"
    THEN Bind(SkipWs(s, i + 1), LAMBDA j :
            IF j <= Len(s) /\ s[j] = "}" THEN Parsed(JObject(<<>>), j + 1)
            ELSE ParseMembers(s, j, <<>>))
    ELSE IF \E k \in 1..Len(Literals) : StartsWith(s, i, Literals[k])
    THEN Bind(CHOOSE k \in 1..Len(Literals) : StartsWith(s, i, Literals[k]),
              LAMBDA k : Parsed(JLiteral(Literals[k]), i + Len(Literals[k])))
    ELSE JSONDecodeError

\* JSONArray after its first element position: value (, value)* ]
ParseElements(s, i, acc) ==
    Bind(ParseValue(s, i), LAMBDA v :
        IF ~v.ok THEN JSONDecodeError
        ELSE Bind(SkipWs(s, v.end), LAMBDA j :
            IF j > Len(s) THEN JSONDecodeError
            ELSE IF s[j] = "]" THEN Parsed(JArray(Append(acc, v.value)), j + 1)
            ELSE IF s[j] = ","
            THEN ParseElements(s, SkipWs(s, j + 1), Append(acc, v.value))
            ELSE JSONDecodeError))

\* JSONObject at the position of a key: "key" : value (, "key" : value)* }
ParseMembers(s, i, acc) ==
    IF i > Len(s) \/ s[i] # "\"" THEN JSONDecodeError
    ELSE Bind(ScanString(s, i + 1), LAMBDA close :
        IF close = 0 THEN JSONDecodeError
        ELSE Bind(SkipWs(s, close + 1), LAMBDA c :
            IF c > Len(s) \/ s[c] # ":" THEN JSONDecodeError
            ELSE Bind(ParseValue(s, SkipWs(s, c + 1)), LAMBDA v :
                IF ~v.ok THEN JSONDecodeError
                ELSE Bind(SkipWs(s, v.end), LAMBDA j :
                    IF j > Len(s) THEN JSONDecodeError
                    ELSE IF s[j] = "}"
                    THEN Parsed(JObject(Put(acc, SubSeq(s, i + 1, close - 1), v.value)),
                                j + 1)
                    ELSE IF s[j] = ","
                    THEN ParseMembers(s, SkipWs(s, j + 1),
                                      Put(acc, SubSeq(s, i + 1, close - 1), v.value))
                    ELSE JSONDecodeError))))

\* json.loads(text): one value between optional whitespace, nothing after
json_loads(text) ==
    Bind(text, LAMBDA s :
        Bind(ParseValue(s, SkipWs(s, 1)), LAMBDA v :
            IF v.ok /\ SkipWs(s, v.end) = Len(s) + 1 THEN v ELSE JSONDecodeError))

(* re.search with the two patterns of _parse_json.                          *)

NoMatch == [found |-> FALSE, group |-> <<>>]

Match(group) == [found |-> TRUE, group |-> group]

\* the fence: three grave accents, each written by its code point
Backticks == <<"U+0060", "U+0060", "U+0060">>

\* \s* and then the closing fence match at position e: the fence starts
\* at the first character from e on that is no whitespace
ClosesAt(s, e) == StartsWith(s, SkipWs(s, e), Backticks)

\* the least element of a non-empty set of positions
Leftmost(positions) == CHOOSE p \in positions : \A q \in positions : p <= q

\* the first position >= e at which the closing fence matches, or 0
FirstClose(s, e) ==
    Bind({d \in e..Len(s) : ClosesAt(s, d)}, LAMBDA closing :
        IF closing = {} THEN 0 ELSE Leftmost(closing))

\* The group ([\s\S]+?) from position g: the lazy group takes the fewest
\* characters, at least one, after which the closing fence matches
LazyGroup(s, g) ==
    Bind(FirstClose(s, g + 1), LAMBDA e :
        IF e = 0 THEN NoMatch ELSE Match(SubSeq(s, g, e - 1)))

\* The pattern after the tag, from position a: the greedy \s* gives whitespace
\* back, one character at a time, until the rest matches
RECURSIVE GreedyWs(_, _, _)
GreedyWs(s, a, g) ==
    IF g < a THEN NoMatch
    ELSE Bind(LazyGroup(s, g), LAMBDA m :
            IF m.found THEN m ELSE GreedyWs(s, a, g - 1))

\* the whole pattern with the opening fence at position p: the optional
\* tag is consumed when it is there and given back when the rest fails
FenceAt(s, p) ==
    IF ~StartsWith(s, p, Backticks) THEN NoMatch
    ELSE Bind(IF StartsWith(s, p + 3, <<"j","s","o","n">>)
              THEN GreedyWs(s, p + 7, SkipWs(s, p + 7))
              ELSE NoMatch,
              LAMBDA tagged :
                IF tagged.found THEN tagged
                ELSE GreedyWs(s, p + 3, SkipWs(s, p + 3)))

\* re.search of the fence pattern (line 127) in the text: group 1 of the
\* leftmost match
fence_match(text) ==
    Bind(text, LAMBDA s :
        Bind({p \in 1..Len(s) : FenceAt(s, p).found}, LAMBDA starts :
            IF starts = {} THEN NoMatch ELSE FenceAt(s, Leftmost(starts))))

\* re.search(r"\{[\s\S]+\}", raw): from the first "{" to the last "}", with
\* at least one character between them
brace_match(text) ==
    Bind(text, LAMBDA s :
        Bind({i \in 1..Len(s) : s[i] = "{"}, LAMBDA opens :
            Bind({i \in 1..Len(s) : s[i] = "}"}, LAMBDA closes :
                IF opens = {} \/ closes = {} THEN NoMatch
                ELSE Bind(Leftmost(opens), LAMBDA a :
                        Bind(CHOOSE b \in closes : \A i \in closes : b >= i,
                             LAMBDA b :
                                IF b >= a + 2 THEN Match(SubSeq(s, a, b))
                                ELSE NoMatch)))))

-----------------------------------------------------------------------------
(* The LLM transport, as call_gemini sees it: client.post either raises    *)
(* httpx.TimeoutException, raises some other exception, or returns a        *)
(* response with a status code, a text and a JSON body.                     *)

\* response.text, as tokens
ResponseTexts == {<<>>, <<"quota exceeded">>, <<"upstream said ", "status=400">>}

\* The text inside the envelope (candidates[0].content.parts[0].text), as
\* characters.
NoText == <<>>

ValidResultText ==
    <<"{","\"","s","u","m","m","a","r","y","\"",":","\"","s","u","m","m","a","r","y"," ","o","k","\"",",">>
    \o <<"\"","r","i","s","k","s","\"",":","[","{","\"","d","e","s","c","r","i","p","t","i","o","n","\"",":","\"","d","e","l","a","y","\"",",","\"","p","r","i","o","r","i","t","y","\"",":","\"","h","i","g","h","\"","}","]",",">>
    \o <<"\"","a","c","t","i","o","n","_","i","t","e","m","s","\"",":","[","{","\"","t","a","s","k","\"",":","\"","e","m","a","i","l"," ","B","o","b","\"","}","]",",">>
    \o <<"\"","e","x","t","r","a","\"",":","1","}">>

SchemaInvalidText ==
    <<"{","\"","s","u","m","m","a","r","y","\"",":","\"","s","h","o","r","t","\"",",","\"","r","i","s","k","s","\"",":","[","]","}">>

ProseText == <<"n","o"," ","J","S","O","N"," ","h","e","r","e">>

BlankText == <<" ", "\n">>

\* the result inside a fence with the json tag
FencedText == Backticks \o <<"j","s","o","n","\n">> \o ValidResultText \o <<"\n">> \o Backticks

\* the result after a sentence of prose
PreambleText ==
    <<"H","e","r","e"," ","i","s"," ","t","h","e"," ","J","S","O","N",":","\n">> \o ValidResultText

Outcome(kind, status, text, shape, raw_text, message) ==
    [kind |-> kind, status |-> status, text |-> text, shape |-> shape,
     raw_text |-> raw_text, message |-> message]

TimeoutOutcome == Outcome("timeout", 0, <<>>, "none", NoText, <<"ReadTimeout">>)

ExceptionOutcome ==
    Outcome("exception", 0, <<>>, "none", NoText, <<"ConnectError: connection refused">>)

StatusOutcome(status, text) == Outcome("response", status, text, "none", NoText, <<>>)

\* A 2xx response: `shape` says how far the envelope can be navigated.
BodyOutcome(status, shape, raw_text) ==
    Outcome("response", status, <<>>, shape, raw_text, <<>>)

FailureOutcomes ==
    {TimeoutOutcome, ExceptionOutcome}
    \cup {StatusOutcome(429, t) : t \in ResponseTexts}
    \cup {StatusOutcome(st, <<"quota exceeded">>) : st \in {500, 400, 401, 403}}
    \cup {StatusOutcome(st, <<>>) : st \in {302, 404}}
    \cup {BodyOutcome(200, sh, NoText) :
            sh \in {"undecodable", "not_object", "no_candidates", "no_parts",
                    "malformed"}}
    \cup {BodyOutcome(200, "text", t) : t \in {BlankText, ProseText, SchemaInvalidText}}

SuccessOutcomes ==
    {BodyOutcome(200, "text", t) : t \in {ValidResultText, FencedText, PreambleText}}
    \cup {BodyOutcome(201, "text", ValidResultText)}

TransportOutcomes == FailureOutcomes \cup SuccessOutcomes

-----------------------------------------------------------------------------
(* app/services/gemini_client.py                                            *)

\* The result of a step that either returns a value or raises.
Returned(value) == [raises |-> "nothing", value |-> value]
RaisedWorkflowError(exc) == [raises |-> "WorkflowError", value |-> exc]
RaisedTimeout(message) == [raises |-> "TimeoutException", value |-> message]
RaisedException(message) == [raises |-> "Exception", value |-> message]

\* f"status={response.status_code}"
StatusToken(status) ==
    CASE status = 302 -> "status=302"
      [] status = 404 -> "status=404"
      [] status = 400 -> "status=400"
      [] status = 401 -> "status=401"
      [] status = 403 -> "status=403"
      [] status = 429 -> "status=429"
      [] status = 500 -> "status=500"
      [] OTHER        -> "status=other"

\* str(response_body)
EnvelopeRepr(o) == <<"envelope:", o.shape>> \o o.raw_text

_extract_json_text(o) ==
    CASE o.shape = "no_candidates" ->
            RaisedWorkflowError(WorkflowError(LLM_EMPTY_RESPONSE,
                <<"Gemini returned no candidates.">>, EnvelopeRepr(o)))
      [] o.shape = "no_parts" ->
            RaisedWorkflowError(WorkflowError(LLM_EMPTY_RESPONSE,
                <<"Gemini returned empty content parts.">>, EnvelopeRepr(o)))
      [] o.shape = "malformed" ->
            RaisedWorkflowError(WorkflowError(LLM_API_ERROR,
                <<"Unexpected Gemini response structure.">>,
                <<"AttributeError: 'str' object has no attribute 'get'">>))
      [] OTHER ->
            Bind(Strip(o.raw_text), LAMBDA text :
                IF text = <<>>
                THEN RaisedWorkflowError(WorkflowError(LLM_EMPTY_RESPONSE,
                        <<"Gemini returned blank text.">>, EnvelopeRepr(o)))
                ELSE Returned(text))

\* group 1 of a match decoded, or the failure to match or to decode
LoadsGroup(m) == IF m.found THEN json_loads(m.group) ELSE JSONDecodeError

\* _parse_json: direct parse, then the fenced block, then the {...}
\* substring; the first that decodes is returned.
_parse_json(raw_output) ==
    Bind(raw_output, LAMBDA text :
    Bind(json_loads(text), LAMBDA direct :
        IF direct.ok THEN Returned(direct.value)
        ELSE Bind(LoadsGroup(fence_match(text)), LAMBDA fenced :
            IF fenced.ok THEN Returned(fenced.value)
            ELSE Bind(LoadsGroup(brace_match(text)), LAMBDA braced :
                IF braced.ok THEN Returned(braced.value)
                ELSE RaisedWorkflowError(WorkflowError(LLM_NON_JSON_RESPONSE,
                        <<"The AI returned a non-JSON response. Please retry.">>,
                        <<"raw_output=">> \o Prefix(text, 500)))))))

(* app/models/schemas.py: WorkflowResult and its sub-models                 *)

SummaryMinLength == 10

DescriptionMinLength == 5

TaskMinLength == 5

\* the field names
Key_description == <<"d","e","s","c","r","i","p","t","i","o","n">>

Key_priority == <<"p","r","i","o","r","i","t","y">>

Key_task == <<"t","a","s","k">>

Key_owner == <<"o","w","n","e","r">>

Key_deadline == <<"d","e","a","d","l","i","n","e">>

Key_summary == <<"s","u","m","m","a","r","y">>

Key_risks == <<"r","i","s","k","s">>

Key_action_items == <<"a","c","t","i","o","n","_","i","t","e","m","s">>

NOT_SPECIFIED == <<"N","o","t"," ","s","p","e","c","i","f","i","e","d">>

Priorities == {<<"h","i","g","h">>, <<"m","e","d","i","u","m">>, <<"l","o","w">>}

HasKey(data, key) == \E i \in 1..Len(data.items) : data.items[i].key = key

\* data[key], for a key that is there
Get(data, key) ==
    data.items[CHOOSE i \in 1..Len(data.items) : data.items[i].key = key].value

\* a required field of type str with a minimum length
StrField(data, key, min_length) ==
    /\ HasKey(data, key)
    /\ Get(data, key).type = "string"
    /\ Len(Get(data, key).chars) >= min_length

\* a field of type str with a default
OptionalStrField(data, key) ==
    HasKey(data, key) => Get(data, key).type = "string"

\* a required field of type list
ListField(data, key) ==
    /\ HasKey(data, key)
    /\ Get(data, key).type = "array"

\* the items of a field of type list
Items(data, key) == Get(data, key).items

ValidRisk(v) ==
    /\ v.type = "object"
    /\ StrField(v, Key_description, DescriptionMinLength)
    /\ HasKey(v, Key_priority)
    /\ Get(v, Key_priority).type = "string"
    /\ Get(v, Key_priority).chars \in Priorities

ValidActionItem(v) ==
    /\ v.type = "object"
    /\ StrField(v, Key_task, TaskMinLength)
    /\ OptionalStrField(v, Key_owner)
    /\ OptionalStrField(v, Key_deadline)

ValidWorkflowResult(data) ==
    /\ data.type = "object"
    /\ StrField(data, Key_summary, SummaryMinLength)
    /\ ListField(data, Key_risks)
    /\ \A i \in 1..Len(Items(data, Key_risks)) : ValidRisk(Items(data, Key_risks)[i])
    /\ ListField(data, Key_action_items)
    /\ \A i \in 1..Len(Items(data, Key_action_items)) :
            ValidActionItem(Items(data, Key_action_items)[i])

GetOr(data, key, default) ==
    IF HasKey(data, key) THEN Get(data, key).chars ELSE default

\* the validated model: unknown fields are dropped, defaults filled in
WorkflowResult(data) ==
    [summary |-> Get(data, Key_summary).chars,
     risks |-> [i \in 1..Len(Get(data, Key_risks).items) |->
                  [description |-> Get(Get(data, Key_risks).items[i], Key_description).chars,
                   priority |-> Get(Get(data, Key_risks).items[i], Key_priority).chars]],
     action_items |-> [i \in 1..Len(Get(data, Key_action_items).items) |->
                  [task |-> Get(Get(data, Key_action_items).items[i], Key_task).chars,
                   owner |-> GetOr(Get(data, Key_action_items).items[i], Key_owner, NOT_SPECIFIED),
                   deadline |-> GetOr(Get(data, Key_action_items).items[i], Key_deadline, NOT_SPECIFIED)]]]

_validate_schema(parsed) ==
    Bind(parsed, LAMBDA data :
        IF ValidWorkflowResult(data) THEN Returned(WorkflowResult(data))
        ELSE RaisedWorkflowError(WorkflowError(LLM_SCHEMA_INVALID,
                <<"The AI returned a response that does not match the required schema.">>,
                <<"ValidationError for WorkflowResult">>)))

\* Lines 236-240: body = response.json() ... result = _validate_schema(parsed)
ProcessBody(o) ==
    IF o.shape = "undecodable" THEN RaisedException(<<"JSONDecodeError">>)
    ELSE IF o.shape = "not_object"
    THEN RaisedException(<<"AttributeError: 'list' object has no attribute 'get'">>)
    ELSE LET text == _extract_json_text(o) IN
         IF text.raises # "nothing" THEN text
         ELSE LET parsed == _parse_json(text.value) IN
              IF parsed.raises # "nothing" THEN parsed
              ELSE _validate_schema(parsed.value)

\* The try block of one attempt (lines 205-258), given what client.post did.
AttemptResult(o) ==
    IF o.kind = "timeout" THEN RaisedTimeout(o.message)
    ELSE IF o.kind = "exception" THEN RaisedException(o.message)
    ELSE IF o.status = 429
    THEN RaisedWorkflowError(WorkflowError(LLM_API_ERROR,
            <<"AI service rate limit hit. Please retry in a moment.">>,
            <<"status=429", " body=">> \o Prefix(o.text, 200)))
    ELSE IF o.status >= 500
    THEN RaisedWorkflowError(WorkflowError(LLM_API_ERROR,
            <<"AI service unavailable.">>,
            <<StatusToken(o.status), " body=">> \o Prefix(o.text, 200)))
    ELSE IF o.status = 400
    THEN RaisedWorkflowError(WorkflowError(LLM_API_ERROR,
            <<"Request rejected by AI service.">>,
            <<"status=400", " body=">> \o Prefix(o.text, 300)))
    ELSE IF o.status \notin {200, 201}
    THEN RaisedWorkflowError(WorkflowError(LLM_API_ERROR,
            <<"Unexpected response from AI service.">>,
            <<StatusToken(o.status)>>))
    ELSE ProcessBody(o)

\* The error an except clause records in last_error (lines 261, 282, 297).
RecordedError(r) ==
    CASE r.raises = "WorkflowError" -> r.value
      [] r.raises = "TimeoutException" ->
            WorkflowError(LLM_TIMEOUT,
                <<"The AI service took too long to respond. Please try again.">>,
                r.value)
      [] r.raises = "Exception" ->
            WorkflowError(INTERNAL_ERROR,
                <<"An unexpected error occurred while calling the AI service.">>,
                r.value)

\* Mutant: the loop stops one attempt early.
LoopContinues_Strict(n, max_retries) == n < max_retries

\* Mutant: the loop admits one attempt more.
LoopContinues_Extra(n, max_retries) == n <= max_retries + 1

\* while attempt <= settings.max_retries
LoopContinues(n, max_retries) == n <= max_retries

\* Mutant: only status 400 is recognised as a client error.
IsFailFast_Only400(exc, n) ==
    /\ exc.code = LLM_API_ERROR
    /\ n = 1
    /\ Contains(exc.internal, <<"status=400">>)

\* Mutant: a client error breaks the loop on any attempt.
IsFailFast_AnyAttempt(exc, n) ==
    /\ exc.code = LLM_API_ERROR
    /\ \/ Contains(exc.internal, <<"status=400">>)
       \/ Contains(exc.internal, <<"status=401">>)

\* Lines 273-276: the client-error break.
IsFailFast(exc, n) ==
    /\ exc.code = LLM_API_ERROR
    /\ n = 1
    /\ \/ Contains(exc.internal, <<"status=400">>)
       \/ Contains(exc.internal, <<"status=401">>)

\* Mutant: an unclassified exception is retried like a typed error.
Breaks_OnlyClientError(r, n) ==
    r.raises = "WorkflowError" /\ IsFailFast(r.value, n)

\* Whether the except clause leaves the loop with break.
Breaks(r, n) ==
    \/ r.raises = "WorkflowError" /\ IsFailFast(r.value, n)
    \/ r.raises = "Exception"

\* if attempt <= settings.max_retries (lines 278, 293)
ShouldSleep(n, max_retries) == n <= max_retries

\* Mutant: a constant delay between attempts.
SleepDuration_Constant(n) == retry_delay_seconds

\* settings.retry_delay_seconds * attempt
SleepDuration(n) == retry_delay_seconds * n

\* Mutant: the attempt number itself is reported.
RetryCount_Attempt(n) == n

\* "retry_count": attempt - 1
RetryCount(n) == n - 1

\* Mutant: the exhausted error is raised with its default detail.
ExhaustedError_NoDetail(le) ==
    WorkflowError(RETRIES_EXHAUSTED, <<>>,
        IF le = NoValue THEN <<>> ELSE le.internal)

\* Lines 313-317: the error raised after the loop.
ExhaustedError(le) ==
    WorkflowError(RETRIES_EXHAUSTED,
        IF le = NoValue THEN <<"All retry attempts failed.">> ELSE le.detail,
        IF le = NoValue THEN <<>> ELSE le.internal)

-----------------------------------------------------------------------------
(* app/api/routes.py and app/main.py: responses                             *)

REQUEST_ID == "request_id:uuid4"

JSONResponse(status, content) == [status_code |-> status, content |-> content]

\* The response of both `except WorkflowError` clauses of process_document.
ErrorResponse(exc) ==
    JSONResponse(status_code(exc),
        [error      |-> to_response(exc).error,
         detail     |-> to_response(exc).detail,
         request_id |-> REQUEST_ID])

SuccessResponse(result) ==
    JSONResponse(200, [request_id |-> REQUEST_ID, result |-> result])

\* the except Exception clause of process_document
UnhandledErrorResponse ==
    JSONResponse(500, [error      |-> "internal_error",
                       detail     |-> <<"An unexpected error occurred.">>,
                       request_id |-> REQUEST_ID])

\* validation_exception_handler of app/main.py
ShapeErrorResponse(errors) ==
    JSONResponse(422, [error |-> "validation_error", detail |-> Flatten(errors)])

-----------------------------------------------------------------------------
(* The incoming requests.                                                   *)

Xs(n) == Repeat("x", n)

Spaces(n) == Repeat(" ", n)

InstructionFields ==
    {Field(FALSE, <<>>),
     Field(TRUE, Xs(1)),
     Field(TRUE, Spaces(InstructionMinLength)),
     Field(TRUE, Xs(InstructionMinLength)),
     Field(TRUE, <<" ">> \o Xs(max_instruction_chars) \o <<" ">>),
     Field(TRUE, Xs(max_instruction_chars + 1)),
     Field(TRUE, <<"Y","o","u"," ","a","r","e"," ","N","O","W"," ">>)}

DocumentFields ==
    {Field(FALSE, <<>>),
     Field(TRUE, Xs(DocumentMinLength - 1)),
     Field(TRUE, Spaces(DocumentMinLength)),
     Field(TRUE, Xs(DocumentMinLength)),
     Field(TRUE, Xs(max_document_chars)),
     Field(TRUE, Xs(max_document_chars + 1))}

RawBodies == [instruction : InstructionFields, document : DocumentFields]

-----------------------------------------------------------------------------
(* The request pipeline: POST /process                                      *)

Respond(resp) ==
    /\ response' = resp
    /\ pc' = "responded"

\* call_gemini raises exc and process_document answers it.
FailWith(exc, constructed) ==
    /\ raised' = raised \cup constructed \cup {exc}
    /\ Respond(ErrorResponse(exc))

\* The head of the while loop, reached with attempt n and last error le:
\* either the next attempt is started and client.post is awaited, or the
\* loop ends and the exhausted error is raised.
LoopHead(n, le, constructed) ==
    IF LoopContinues(n, settings.max_retries)
    THEN /\ attempt' = n + 1
         /\ calls' = calls + 1
         /\ pc' = "awaiting_post"
         /\ raised' = raised \cup constructed
         /\ UNCHANGED response
    ELSE /\ attempt' = n
         /\ calls' = calls
         /\ FailWith(ExhaustedError(le), constructed)

\* FastAPI builds the ProcessRequest from the JSON body, or answers 422.
ParseRequest ==
    /\ pc = "received"
    /\ LET errors == RequestValidationErrors(raw) IN
       IF Flatten(errors) # <<>>
       THEN /\ Respond(ShapeErrorResponse(errors))
            /\ UNCHANGED body
       ELSE /\ body' = ProcessRequest(raw)
            /\ pc' = "parsed"
            /\ UNCHANGED response
    /\ UNCHANGED <<settings, raw, attempt, last_error, prompt, calls, sleeps,
                   outcomes, raised, retry_count, cancelled>>
    /\ UNCHANGED <<sanitizeVars, boundaryVars, parseVars, loopVars>>

\* Mutant: the error of the input guard is dropped and the LLM call goes on.
ProcessDocument_NoGuard ==
    /\ pc = "parsed"
    /\ IF ~settings.gemini_api_key_set
       THEN /\ FailWith(WorkflowError(LLM_API_ERROR,
                            <<"Service configuration error.">>,
                            <<"GEMINI_API_KEY is not set.">>), {})
            /\ UNCHANGED <<attempt, calls, prompt>>
       ELSE /\ prompt' = build_prompt(body)
            /\ LoopHead(0, NoValue, {})
    /\ UNCHANGED <<settings, raw, body, last_error, sleeps, outcomes, retry_count,
                   cancelled>>
    /\ UNCHANGED <<sanitizeVars, boundaryVars, parseVars, loopVars>>

\* process_document up to its first suspension point: the input guard, then
\* call_gemini up to the first client.post.
ProcessDocument ==
    /\ pc = "parsed"
    /\ LET verr == validate_request_input(body) IN
       IF verr # NoValue
       THEN /\ FailWith(verr, {})
            /\ UNCHANGED <<attempt, calls, prompt>>
       ELSE IF ~settings.gemini_api_key_set
       THEN /\ FailWith(WorkflowError(LLM_API_ERROR,
                            <<"Service configuration error.">>,
                            <<"GEMINI_API_KEY is not set.">>), {})
            /\ UNCHANGED <<attempt, calls, prompt>>
       ELSE /\ prompt' = build_prompt(body)
            /\ LoopHead(0, NoValue, {})
    /\ UNCHANGED <<settings, raw, body, last_error, sleeps, outcomes, retry_count,
                   cancelled>>
    /\ UNCHANGED <<sanitizeVars, boundaryVars, parseVars, loopVars>>

\* client.post returns or raises: the rest of the attempt, up to the next
\* suspension point or to the response.  r is what the try block did and
\* exc the error the except clause records.
PostReturns(o) ==
    /\ pc = "awaiting_post"
    /\ outcomes' = Append(outcomes, o)
    /\ \E r \in {AttemptResult(o)} :
       IF r.raises = "nothing"
       THEN /\ retry_count' = RetryCount(attempt)
            /\ Respond(SuccessResponse(r.value))
            /\ UNCHANGED <<attempt, last_error, calls, sleeps, raised>>
       ELSE \E exc \in {RecordedError(r)} :
            /\ last_error' = exc
            /\ UNCHANGED retry_count
            /\ IF Breaks(r, attempt)
               THEN /\ FailWith(ExhaustedError(exc), {exc})
                    /\ UNCHANGED <<attempt, calls, sleeps>>
               ELSE IF ShouldSleep(attempt, settings.max_retries)
               THEN /\ sleeps' = Append(sleeps, SleepDuration(attempt))
                    /\ pc' = "sleeping"
                    /\ raised' = raised \cup {exc}
                    /\ UNCHANGED <<attempt, calls, response>>
               ELSE /\ LoopHead(attempt, exc, {exc})
                    /\ UNCHANGED sleeps
    /\ UNCHANGED <<settings, raw, body, prompt, cancelled>>
    /\ UNCHANGED <<sanitizeVars, boundaryVars, parseVars, loopVars>>

\* asyncio.sleep returns: back to the head of the loop.
SleepReturns ==
    /\ pc = "sleeping"
    /\ LoopHead(attempt, last_error, {})
    /\ UNCHANGED <<settings, raw, body, last_error, prompt, sleeps, outcomes,
                   retry_count, cancelled>>
    /\ UNCHANGED <<sanitizeVars, boundaryVars, parseVars, loopVars>>

SanitizeIdle ==
    /\ sText = <<>>
    /\ sPrev = <<>>
    /\ sApplied = 0

BoundaryIdle ==
    /\ eErr = NoValue
    /\ eResp = NoValue

ParseIdle ==
    /\ jText = <<>>
    /\ jForm = "none"
    /\ jRaw = <<>>
    /\ jOut = NoValue

LoopIdle ==
    /\ running = "a"
    /\ parked = <<>>

PipelineIdle ==
    /\ settings = [max_retries |-> 0, gemini_api_key_set |-> FALSE]
    /\ raw = [instruction |-> Field(FALSE, <<>>), document |-> Field(FALSE, <<>>)]
    /\ body = NoValue
    /\ pc = "idle"
    /\ attempt = 0
    /\ last_error = NoValue
    /\ prompt = NoValue
    /\ calls = 0
    /\ sleeps = <<>>
    /\ outcomes = <<>>
    /\ raised = {}
    /\ retry_count = -1
    /\ cancelled = FALSE
    /\ response = NoValue

Init ==
    /\ settings \in Settings
    /\ raw \in RawBodies
    /\ body = NoValue
    /\ pc = "received"
    /\ attempt = 0
    /\ last_error = NoValue
    /\ prompt = NoValue
    /\ calls = 0
    /\ sleeps = <<>>
    /\ outcomes = <<>>
    /\ raised = {}
    /\ retry_count = -1
    /\ cancelled = FALSE
    /\ response = NoValue
    /\ SanitizeIdle
    /\ BoundaryIdle
    /\ ParseIdle
    /\ LoopIdle

Next ==
    \/ ParseRequest
    \/ ProcessDocument
    \/ \E o \in TransportOutcomes : PostReturns(o)
    \/ SleepReturns

Spec == Init /\ [][Next]_vars

\* Mutant: every exception class derives from Exception.
IsException_All(class) == TRUE

\* issubclass(class, Exception): asyncio.CancelledError derives from
\* BaseException only, so no except clause of call_gemini or of
\* process_document matches it.
IsException(class) == class \in {"WorkflowError", "TimeoutException", "Exception"}

\* The task of the request is cancelled while it is suspended in
\* client.post or in asyncio.sleep: the await raises CancelledError.  In
\* client.post it is offered to the except clauses of the attempt; in
\* asyncio.sleep, which runs inside an except handler, it leaves call_gemini
\* at once and is offered to the except clauses of process_document.
Cancel ==
    /\ pc \in {"awaiting_post", "sleeping"}
    /\ cancelled' = TRUE
    /\ IF ~IsException("CancelledError")
       THEN /\ pc' = "cancelled"
            /\ UNCHANGED <<last_error, raised, response>>
       ELSE IF pc = "awaiting_post"
       THEN \E exc \in {RecordedError(RaisedException(<<>>))} :
            /\ last_error' = exc
            /\ FailWith(ExhaustedError(exc), {exc})
       ELSE /\ Respond(UnhandledErrorResponse)
            /\ UNCHANGED <<last_error, raised>>
    /\ UNCHANGED <<settings, raw, body, attempt, prompt, calls, sleeps, outcomes,
                   retry_count>>
    /\ UNCHANGED <<sanitizeVars, boundaryVars, parseVars, loopVars>>

NextCancel ==
    \/ Next
    \/ Cancel

\* The pipeline of a request that its caller may abandon.
SpecCancel == Init /\ [][NextCancel]_vars

-----------------------------------------------------------------------------
(* Concurrent requests on one event loop                                    *)

\* The requests served concurrently by the process.
Requests == {"a", "b"}

\* What a request owns: the arguments and local variables of its
\* process_document and call_gemini coroutines, its httpx.AsyncClient, and
\* the record of what happened to it.  The settings are not in it: they are
\* the process-wide snapshot of get_settings().
Frame ==
    [raw |-> raw, body |-> body, pc |-> pc, attempt |-> attempt,
     last_error |-> last_error, prompt |-> prompt, calls |-> calls,
     sleeps |-> sleeps, outcomes |-> outcomes, raised |-> raised,
     retry_count |-> retry_count, cancelled |-> cancelled,
     response |-> response]

\* The frame of a request that has just been received with the body b.
NewFrame(b) ==
    [raw |-> b, body |-> NoValue, pc |-> "received", attempt |-> 0,
     last_error |-> NoValue, prompt |-> NoValue, calls |-> 0,
     sleeps |-> <<>>, outcomes |-> <<>>, raised |-> {},
     retry_count |-> -1, cancelled |-> FALSE, response |-> NoValue]

\* The frame of request r, running or not.
FrameOf(r) == IF r = running THEN Frame ELSE parked[r]

\* Mutant: attempt and last_error are kept at module level and shared by
\* all the calls of call_gemini.
Saved_Shared(r) ==
    [parked[r] EXCEPT !.attempt = attempt, !.last_error = last_error]

\* The frame with which the coroutine of request r is resumed: attempt and
\* last_error are locals of call_gemini, so they are the ones r left.
Saved(r) == parked[r]

\* The running coroutine is suspended in an await, or has finished, and the
\* event loop resumes the coroutine of request r.
Resume(r) ==
    /\ r \in DOMAIN parked
    /\ parked' = [q \in (DOMAIN parked \ {r}) \cup {running} |->
                    IF q = running THEN Frame ELSE parked[q]]
    /\ running' = r
    /\ \E f \in {Saved(r)} :
        /\ raw' = f.raw
        /\ body' = f.body
        /\ pc' = f.pc
        /\ attempt' = f.attempt
        /\ last_error' = f.last_error
        /\ prompt' = f.prompt
        /\ calls' = f.calls
        /\ sleeps' = f.sleeps
        /\ outcomes' = f.outcomes
        /\ raised' = f.raised
        /\ retry_count' = f.retry_count
        /\ cancelled' = f.cancelled
        /\ response' = f.response
    /\ UNCHANGED settings
    /\ UNCHANGED <<sanitizeVars, boundaryVars, parseVars>>

\* The bodies of the concurrent requests: two that pass the input guard and
\* one that does not.
ConcurrentBodies ==
    {[instruction |-> Field(TRUE, Xs(InstructionMinLength)),
      document |-> Field(TRUE, Xs(d))] :
        d \in {DocumentMinLength, max_document_chars, max_document_chars + 1}}

\* What the transport does to the concurrent requests: a retryable failure,
\* a client error, and a success.
ConcurrentOutcomes ==
    {TimeoutOutcome,
     StatusOutcome(400, <<"quota exceeded">>),
     BodyOutcome(200, "text", ValidResultText)}

InitConcurrent ==
    /\ settings \in {s \in Settings : s.gemini_api_key_set /\ s.max_retries > 0}
    /\ raw \in ConcurrentBodies
    /\ body = NoValue
    /\ pc = "received"
    /\ attempt = 0
    /\ last_error = NoValue
    /\ prompt = NoValue
    /\ calls = 0
    /\ sleeps = <<>>
    /\ outcomes = <<>>
    /\ raised = {}
    /\ retry_count = -1
    /\ cancelled = FALSE
    /\ response = NoValue
    /\ running = "a"
    /\ parked \in [Requests \ {"a"} -> {NewFrame(b) : b \in ConcurrentBodies}]
    /\ SanitizeIdle
    /\ BoundaryIdle
    /\ ParseIdle

\* A step of the running request up to its next suspension point.
RunningStep ==
    /\ \/ ParseRequest
       \/ ProcessDocument
       \/ \E o \in ConcurrentOutcomes : PostReturns(o)
       \/ SleepReturns

NextConcurrent ==
    \/ RunningStep
    \/ \E r \in Requests : Resume(r)

\* Two requests served concurrently by one event loop.
SpecConcurrent == InitConcurrent /\ [][NextConcurrent]_vars

\* The pipeline when every awaited transport call and sleep returns: the
\* event loop resumes the coroutine, so an enabled step is eventually taken.
SpecFair == Init /\ [][Next]_vars /\ WF_vars(Next)

-----------------------------------------------------------------------------
(* sanitize_text applied to texts assembled from short pieces.              *)

MaxPieces == 2

MaxApplications == 2

Pieces ==
    {<<"y","o","u"," ","a","r","e"," ","n","o","w">>,
     <<"Y","O","U"," ","A","R","E"," ","N","O","W">>,
     <<"A","c","t"," ","a","s"," ","i","f">>,
     <<"[","[","S","Y","S","T","E","M","]","]">>,
     <<"s","y","s","t","e","m"," ","p","r","o","m","p","t",":">>,
     <<" ","a","n","d"," ">>,
     <<"Q","3"," ","r","e","p","o","r","t">>,
     <<"U+0130">>}

PieceSeqs == UNION {[1..n -> Pieces] : n \in 0..MaxPieces}

SanitizeInputs == {Flatten(ps) : ps \in PieceSeqs}

InitSanitize ==
    /\ sText \in SanitizeInputs
    /\ sPrev = <<>>
    /\ sApplied = 0
    /\ PipelineIdle
    /\ BoundaryIdle
    /\ ParseIdle
    /\ LoopIdle

\* text = sanitize_text(text)
SanitizeStep ==
    /\ sApplied < MaxApplications
    /\ sPrev' = sText
    /\ sText' = sanitize_text(sText)
    /\ sApplied' = sApplied + 1
    /\ UNCHANGED <<pipelineVars, boundaryVars, parseVars, loopVars>>

NextSanitize == SanitizeStep

SpecSanitize == InitSanitize /\ [][NextSanitize]_vars

-----------------------------------------------------------------------------
(* The boundary of process_document, for any WorkflowError that call_gemini *)
(* may be made to raise.                                                    *)

BoundaryDetails == {<<>>, <<"User-safe message.">>, <<"Timeout">>}

BoundaryInternals ==
    {<<>>, <<"SECRET_API_KEY=abc123 stack trace here">>,
     <<"status=429", " body=", "quota exceeded">>}

BoundaryErrors ==
    {WorkflowError(c, d, i) :
        c \in ErrorCode, d \in BoundaryDetails, i \in BoundaryInternals}

InitBoundary ==
    /\ eErr \in BoundaryErrors
    /\ eResp = NoValue
    /\ PipelineIdle
    /\ SanitizeIdle
    /\ ParseIdle
    /\ LoopIdle

\* except WorkflowError as exc: return JSONResponse(...)
BoundaryConvert ==
    /\ eResp = NoValue
    /\ eResp' = ErrorResponse(eErr)
    /\ UNCHANGED <<eErr, pipelineVars, sanitizeVars, parseVars, loopVars>>

NextBoundary == BoundaryConvert

SpecBoundary == InitBoundary /\ [][NextBoundary]_vars

-----------------------------------------------------------------------------
(* _parse_json applied to JSON objects presented verbatim, inside a fence   *)
(* and after a prose preamble.                                              *)

ParseObjects ==
    {<<"{","}">>,
     <<"{","\"","a","\"",":","1","}">>,
     <<"{","\"","a","\"",":","{","\"","b","\"",":","[","1",",","1","]","}","}">>,
     <<"{"," ","\"","a","\""," ",":"," ","\"","}","{","\""," ","}">>,
     <<"{","\"","a","\"",":","\"">> \o Backticks \o <<"1">> \o Backticks \o <<"\"","}">>,
     ValidResultText}

JsonTag == <<"j","s","o","n">>

\* the text before and after a fenced object
Fences ==
    {<<Backticks \o JsonTag \o <<"\n">>, <<"\n">> \o Backticks>>,
     <<Backticks \o <<"\n">>, <<"\n">> \o Backticks>>,
     <<Backticks \o JsonTag, Backticks>>,
     <<Backticks, Backticks>>}

Preambles ==
    {<<"H","e","r","e"," ","i","s"," ","t","h","e"," ","J","S","O","N",":","\n">>,
     <<"H","e","r","e",":"," ">>,
     <<"U","s","e"," ","{","x","}",":"," ">>,
     <<"R","e","s","u","l","t"," ","}",":"," ">>,
     <<"T","r","y"," ">> \o Backticks \o <<"1">> \o Backticks \o <<" ","o","r"," ">>}

ParseInputs ==
    {[text |-> j, form |-> "verbatim", raw_output |-> j] : j \in ParseObjects}
    \cup {[text |-> j, form |-> "fenced", raw_output |-> f[1] \o j \o f[2]] :
            j \in ParseObjects, f \in Fences}
    \cup {[text |-> j, form |-> "preamble", raw_output |-> p \o j] :
            j \in ParseObjects, p \in Preambles}

InitParse ==
    /\ \E in \in ParseInputs :
        /\ jText = in.text
        /\ jForm = in.form
        /\ jRaw = in.raw_output
    /\ jOut = NoValue
    /\ PipelineIdle
    /\ SanitizeIdle
    /\ BoundaryIdle
    /\ LoopIdle

\* parsed = _parse_json(raw_text)
ParseStep ==
    /\ jOut = NoValue
    /\ jOut' = _parse_json(jRaw)
    /\ UNCHANGED <<jText, jForm, jRaw, pipelineVars, sanitizeVars, boundaryVars,
                   loopVars>>

NextParse == ParseStep

SpecParse == InitParse /\ [][NextParse]_vars

-----------------------------------------------------------------------------
(* Properties                                                               *)

Responded == pc = "responded"

Failed == Responded /\ response.status_code # 200

Succeeded == Responded /\ response.status_code = 200

AllTimeouts ==
    /\ outcomes # <<>>
    /\ \A i \in 1..Len(outcomes) : outcomes[i].kind = "timeout"

\* C1: when every transport call so far timed out, never more than
\* max_retries + 1 calls have been issued, and the request is answered only
\* after exactly max_retries + 1 calls, with the RetriesExhausted error.
C1_TimeoutsExhaustAfterAllAttempts ==
    AllTimeouts =>
        /\ calls <= settings.max_retries + 1
        /\ Responded =>
            /\ calls = settings.max_retries + 1
            /\ Len(outcomes) = settings.max_retries + 1
            /\ response.content.error = RETRIES_EXHAUSTED

C1_Witness ==
    /\ AllTimeouts
    /\ Responded
    /\ settings.max_retries = MaxRetries
    /\ calls = MaxRetries + 1

FirstIsClientError ==
    /\ outcomes # <<>>
    /\ outcomes[1].kind = "response"
    /\ outcomes[1].status \in {400, 401}

\* C2: when the first attempt is answered with status 400 or 401 the call
\* has failed at once: one transport call, no sleep, no second attempt,
\* for every max_retries.
C2_ClientErrorOnFirstAttemptFailsFast ==
    FirstIsClientError =>
        /\ Failed
        /\ calls = 1
        /\ Len(outcomes) = 1
        /\ sleeps = <<>>

C2_Witness ==
    /\ FirstIsClientError
    /\ outcomes[1].status = 401
    /\ settings.max_retries = MaxRetries
    /\ Failed

\* C3: a call that succeeds on attempt k (the k-th transport outcome) reports
\* retry_count = k - 1, every earlier attempt having failed, and
\* 1 <= k <= max_retries + 1.
C3_RetryCountIsFailedAttempts ==
    Succeeded =>
        /\ Len(outcomes) \in 1..(settings.max_retries + 1)
        /\ retry_count = Len(outcomes) - 1
        /\ \A i \in 1..(Len(outcomes) - 1) : AttemptResult(outcomes[i]).raises # "nothing"
        /\ AttemptResult(outcomes[Len(outcomes)]).raises = "nothing"

C3_Witness ==
    /\ Succeeded
    /\ Len(outcomes) = 2
    /\ retry_count = 1

\* The text of a response body.
BodyText(resp) ==
    <<resp.content.error>> \o resp.content.detail
    \o (IF "request_id" \in DOMAIN resp.content
        THEN <<resp.content.request_id>> ELSE <<>>)

\* C4: a failure response carries the kind, the caller-safe detail of the
\* error that ended the request and the request id, and no internal detail
\* of any error constructed while serving the request appears in its body.
C4_NoInternalDetailInBody ==
    Failed =>
        /\ \A e \in raised :
              e.internal # <<>> => ~Contains(BodyText(response), e.internal)
        /\ response.status_code # 422 =>
              \E e \in raised :
                  response.content =
                      [error |-> e.code, detail |-> e.detail,
                       request_id |-> REQUEST_ID]

C4_Witness ==
    /\ Failed
    /\ response.content.error = RETRIES_EXHAUSTED
    /\ \E e \in raised : e.code = RETRIES_EXHAUSTED /\ e.internal # <<>>
    /\ Cardinality({e.internal : e \in raised}) >= 2

\* The request has reached the input guard.
Guarded == body # NoValue

GuardCode ==
    IF validate_request_input(body) = NoValue THEN "ok"
    ELSE validate_request_input(body).code

TooLong ==
    \/ Len(body.instruction) > max_instruction_chars
    \/ Len(body.document) > max_document_chars

\* C5 as stated: every request with an over-long instruction or an over-long
\* document fails with InputTooLarge, whatever the other field is.
C5_Original == (Guarded /\ TooLong) => GuardCode = INPUT_TOO_LARGE

\* C5 amended: an over-long instruction fails with InputTooLarge; an
\* over-long document fails with InputTooLarge when the instruction is
\* within its limit and not blank; and the answer carries that kind.
C5_TooLargeAfterInstructionGuards ==
    Guarded =>
        /\ Len(body.instruction) > max_instruction_chars
              => GuardCode = INPUT_TOO_LARGE
        /\ ( /\ Len(body.document) > max_document_chars
             /\ Len(body.instruction) <= max_instruction_chars
             /\ Strip(body.instruction) # <<>> )
              => /\ GuardCode = INPUT_TOO_LARGE
                 /\ Responded => response.content.error = INPUT_TOO_LARGE

C5_Witness ==
    /\ Guarded
    /\ Responded
    /\ Len(body.document) > max_document_chars
    /\ Len(body.instruction) <= max_instruction_chars
    /\ Strip(body.instruction) # <<>>
    /\ response.content.error = INPUT_TOO_LARGE

\* C6 as stated: a blank instruction fails with InstructionMissing and a
\* blank document fails with DocumentMissing, whatever the other field is.
C6_Original ==
    Guarded =>
        /\ Strip(body.instruction) = <<>> => GuardCode = INSTRUCTION_MISSING
        /\ Strip(body.document) = <<>> => GuardCode = DOCUMENT_MISSING

\* C6 amended: a blank instruction within its length limit fails with
\* InstructionMissing; a blank document within its length limit fails with
\* DocumentMissing when the instruction is within its limit and not blank.
C6_MissingAfterEarlierGuards ==
    Guarded =>
        /\ ( /\ Strip(body.instruction) = <<>>
             /\ Len(body.instruction) <= max_instruction_chars )
              => GuardCode = INSTRUCTION_MISSING
        /\ ( /\ Strip(body.document) = <<>>
             /\ Len(body.document) <= max_document_chars
             /\ Len(body.instruction) <= max_instruction_chars
             /\ Strip(body.instruction) # <<>> )
              => /\ GuardCode = DOCUMENT_MISSING
                 /\ Responded => response.content.error = DOCUMENT_MISSING

C6_Witness ==
    /\ Guarded
    /\ Responded
    /\ Strip(body.document) = <<>>
    /\ Strip(body.instruction) # <<>>
    /\ Len(body.instruction) <= max_instruction_chars
    /\ response.content.error = DOCUMENT_MISSING

\* C7: a request that the input guard rejects never gets a prompt built nor
\* a transport call issued, and it is answered with the guard's error.
C7_GuardRunsBeforeOrchestrator ==
    (Guarded /\ GuardCode # "ok") =>
        /\ prompt = NoValue
        /\ calls = 0
        /\ outcomes = <<>>
        /\ pc \in {"parsed", "responded"}
        /\ Responded => response = ErrorResponse(validate_request_input(body))

C7_Witness ==
    /\ Guarded
    /\ GuardCode = INPUT_TOO_LARGE
    /\ Responded
    /\ response.status_code = 400
    /\ settings.gemini_api_key_set

\* C8 as stated: the output of sanitize_text for a text that contains an
\* injection phrase contains no injection phrase, in any letter case, and
\* contains the marker.
C8_NoPhraseAfterSanitize ==
    (sApplied >= 1 /\ HasInjectionPhrase(sPrev)) =>
        /\ ~HasInjectionPhrase(sText)
        /\ Contains(sText, REMOVED)

\* C9 as stated: a second application of sanitize_text changes nothing.
C9_SanitizeIdempotent == sApplied >= 2 => sText = sPrev

ExpectedStatus ==
    {<<"input_too_large", 400>>, <<"instruction_missing", 400>>,
     <<"document_missing", 400>>, <<"llm_non_json_response", 502>>,
     <<"llm_schema_invalid", 502>>, <<"llm_api_error", 502>>,
     <<"llm_empty_response", 502>>, <<"retries_exhausted", 502>>,
     <<"llm_timeout", 504>>, <<"internal_error", 500>>}

C11_TimeoutAnswered504 ==
    (AllTimeouts /\ Responded) => response.status_code = 504

\* The error recorded for the i-th transport outcome.
AttemptError(i) == RecordedError(AttemptResult(outcomes[i]))

\* The errors call_gemini raised to process_document.
ExhaustedErrors == {e \in raised : e.code = RETRIES_EXHAUSTED}

\* C12: when call_gemini fails after at least one transport attempt, the
\* error it raises has kind RetriesExhausted and carries the detail and the
\* internal detail of the error of the most recent attempt.
C12_ExhaustedCarriesLastError ==
    (Failed /\ outcomes # <<>>) =>
        /\ response.content.error = RETRIES_EXHAUSTED
        /\ response.content.detail = AttemptError(Len(outcomes)).detail
        /\ ExhaustedErrors # {}
        /\ \A e \in ExhaustedErrors :
              /\ e.detail = AttemptError(Len(outcomes)).detail
              /\ e.internal = AttemptError(Len(outcomes)).internal

C12_Witness ==
    /\ Failed
    /\ Len(outcomes) >= 2
    /\ AttemptError(1).detail # AttemptError(Len(outcomes)).detail
    /\ AttemptError(1).internal # AttemptError(Len(outcomes)).internal
    /\ \E e \in ExhaustedErrors : e.internal = AttemptError(Len(outcomes)).internal

\* Whether the k-th check of the input guard fails for the request.
CheckFails(k, request) ==
    CASE k = 1 -> Len(request.instruction) > max_instruction_chars
      [] k = 2 -> Strip(request.instruction) = <<>>
      [] k = 3 -> Len(request.document) > max_document_chars
      [] k = 4 -> Strip(request.document) = <<>>
      [] k = 5 -> Len(request.instruction) + Len(request.document)
                      > max_combined_chars

\* The error kind and the field named in the detail, check by check.
CheckError(k) ==
    CASE k = 1 -> InstructionTooLong
      [] k = 2 -> InstructionBlank
      [] k = 3 -> DocumentTooLong
      [] k = 4 -> DocumentBlank
      [] k = 5 -> CombinedTooLong

CheckKind == <<"input_too_large", "instruction_missing", "input_too_large",
               "document_missing", "input_too_large">>

FailingChecks == {k \in 1..5 : CheckFails(k, body)}

FirstFailing == CHOOSE k \in FailingChecks : \A j \in FailingChecks : k <= j

\* C14: the input guard returns ok exactly when none of the five checks
\* (instruction length, instruction blank, document length, document blank,
\* combined length) fails, and otherwise raises the error of the first
\* failing check in that order; the request is answered with that error.
C14_FirstFailingCheckDecides ==
    Guarded =>
        /\ (validate_request_input(body) = NoValue) <=> (FailingChecks = {})
        /\ FailingChecks # {} =>
              /\ validate_request_input(body) = CheckError(FirstFailing)
              /\ validate_request_input(body).code = CheckKind[FirstFailing]
              /\ Responded => response.content.detail = CheckError(FirstFailing).detail

C14_Witness ==
    /\ Guarded
    /\ Responded
    /\ FailingChecks = {5}
    /\ response.content.error = INPUT_TOO_LARGE
    /\ response.content.detail = CombinedTooLong.detail

\* Two checks fail and the earlier one is reported.
C14_WitnessShortCircuit ==
    /\ Guarded
    /\ Responded
    /\ FailingChecks = {2, 3}
    /\ response.content.error = INSTRUCTION_MISSING

Retried(i) ==
    /\ Len(sleeps) >= i
    /\ \/ pc = "sleeping" /\ attempt = i
       \/ calls >= i + 1

IsResponse(i) == outcomes[i].kind = "response"

\* C16 as stated: a response with status 429 or >= 500 on attempt
\* i <= max_retries is followed by a backoff and by attempt i + 1, whatever
\* the response body is and also on the first attempt.
C16_RateLimitAndServerErrorRetried ==
    \A i \in 1..Len(outcomes) :
        ( /\ i <= settings.max_retries
          /\ IsResponse(i)
          /\ outcomes[i].status = 429 \/ outcomes[i].status >= 500 )
            => Retried(i)

ResultFailed(i) ==
    /\ IsResponse(i)
    /\ outcomes[i].status \in {200, 201}
    /\ outcomes[i].shape # "undecodable"
    /\ AttemptResult(outcomes[i]).raises # "nothing"

\* C18 as stated: when obtaining the result from a 2xx response fails at
\* extraction, parsing or schema validation on attempt i <= max_retries, the
\* orchestrator backs off and makes attempt i + 1, and an attempt that
\* yields a valid result makes the call succeed.
C18_ResultFailureRetried ==
    /\ \A i \in 1..Len(outcomes) :
          (i <= settings.max_retries /\ ResultFailed(i)) => Retried(i)
    /\ ( /\ Responded
         /\ outcomes # <<>>
         /\ outcomes[Len(outcomes)] \in SuccessOutcomes ) => Succeeded

Unclassified(i) == AttemptResult(outcomes[i]).raises = "Exception"

\* C19: an unclassified exception on attempt i is the end of the call: the
\* call has failed with that exception recorded as INTERNAL_ERROR, attempt i
\* is the last transport call and no sleep follows it.
C19_UnclassifiedFailsFast ==
    \A i \in 1..Len(outcomes) :
        Unclassified(i) =>
            /\ i = Len(outcomes)
            /\ Failed
            /\ last_error = AttemptError(i)
            /\ last_error.code = INTERNAL_ERROR
            /\ calls = i
            /\ attempt = i
            /\ Len(sleeps) = i - 1

\* An unclassified exception on the second attempt with a retry remaining.
C19_Witness ==
    /\ Len(outcomes) = 2
    /\ Unclassified(2)
    /\ settings.max_retries = MaxRetries
    /\ Failed
    /\ calls = 2

\* The orchestrator is in Attempting(attempt).
Attempting == pc \in {"awaiting_post", "sleeping"}

\* C20: the orchestrator is only ever in Attempting(n) for n in
\* 1..max_retries + 1 and has issued exactly n <= max_retries + 1 transport
\* calls; the attempt number only grows, by one per step; when every
\* transport call and sleep returns the call ends in a success or a typed
\* error, and no transport call is made afterwards.
C20_BoundedAttemptsThenTerminal ==
    /\ [](/\ attempt \in 0..(settings.max_retries + 1)
          /\ calls = attempt
          /\ Len(outcomes) <= calls
          /\ Attempting => attempt \in 1..(settings.max_retries + 1)
          /\ Succeeded => retry_count = attempt - 1
          /\ (Failed /\ calls > 0) => response.content.error \in ErrorCode)
    /\ [][attempt' = attempt \/ attempt' = attempt + 1]_vars
    /\ <>Responded
    /\ [][Responded => (Responded' /\ calls' = calls /\ outcomes' = outcomes)]_vars

\* All max_retries + 1 attempts were used and the last one succeeded.
C20_Witness ==
    /\ Succeeded
    /\ settings.max_retries = MaxRetries
    /\ attempt = MaxRetries + 1
    /\ Len(sleeps) = MaxRetries

\* The object that the text of J denotes.
ObjectOf(text) == json_loads(text).value

\* C13 as stated: for a JSON object J, _parse_json returns J for J's text
\* verbatim, for J's text inside a triple-backtick fence with or without the
\* json tag, and for J's text after any prose preamble.
C13_AllFormsParseToSameObject ==
    jOut # NoValue => jOut = Returned(ObjectOf(jText))

\* C21: once the task of a request has been cancelled in a transport call
\* or in a backoff sleep, the request is neither answered nor failed: no
\* error is recorded or raised for it, and no transport call and no sleep
\* is started for it any more.
C21_CancellationStopsWork ==
    /\ [](cancelled => (pc = "cancelled" /\ response = NoValue))
    /\ [][cancelled' => /\ calls' = calls
                        /\ sleeps' = sleeps
                        /\ outcomes' = outcomes
                        /\ attempt' = attempt
                        /\ last_error' = last_error
                        /\ raised' = raised]_vars

\* cancelled in the second transport call, with a retry remaining
C21_Witness ==
    /\ cancelled
    /\ settings.max_retries = MaxRetries
    /\ calls = 2
    /\ Len(outcomes) = 1

\* cancelled in the backoff sleep that follows the first attempt
C21_WitnessSleep ==
    /\ cancelled
    /\ settings.max_retries = MaxRetries
    /\ calls = 1
    /\ Len(outcomes) = 1
    /\ sleeps = <<SleepDuration(1)>>


\* The transport calls of a frame that were issued and have not returned.
InFlight(f) == f.calls - Len(f.outcomes)

Unfinished(f) == f.pc \in {"received", "parsed", "awaiting_post", "sleeping"}

\* The error recorded for the last failed attempt among the outcomes outs.
ErrorOf(outs) ==
    LET failed == SelectSeq(outs, LAMBDA o : AttemptResult(o).raises # "nothing")
    IN IF failed = <<>>
       THEN NoValue
       ELSE RecordedError(AttemptResult(failed[Len(failed)]))

\* C22: concurrent requests are independent.  Each request has at most one
\* transport call in flight, and exactly one while it awaits client.post;
\* its attempt counter and its last error are functions of its own transport
\* outcomes; two requests with the same body that have received the same
\* outcomes and stand at the same point have the same attempt counter, last
\* error, response and whole frame, whatever the interleaving that led each
\* of them there; and whatever the other requests are suspended in, any
\* request can be resumed and the running request can take its next step.
C22_ConcurrentRequestsIndependent ==
    /\ \A r \in Requests :
        /\ InFlight(FrameOf(r)) \in {0, 1}
        /\ InFlight(FrameOf(r)) = 1 <=> FrameOf(r).pc = "awaiting_post"
        /\ FrameOf(r).attempt = FrameOf(r).calls
        /\ FrameOf(r).last_error = ErrorOf(FrameOf(r).outcomes)
    /\ \A r1, r2 \in Requests :
        (/\ FrameOf(r1).raw = FrameOf(r2).raw
         /\ FrameOf(r1).outcomes = FrameOf(r2).outcomes
         /\ FrameOf(r1).pc = FrameOf(r2).pc)
        => FrameOf(r1) = FrameOf(r2)
    /\ \A r \in Requests \ {running} : ENABLED Resume(r)
    /\ Unfinished(Frame) => ENABLED RunningStep

\* both requests have the same body and were interleaved: "a" was answered
\* after a retry while "b" is suspended in its first backoff sleep
C22_Witness ==
    /\ FrameOf("a").raw = FrameOf("b").raw
    /\ FrameOf("a").pc = "responded"
    /\ FrameOf("a").attempt = 2
    /\ FrameOf("a").response.status_code = 200
    /\ FrameOf("b").pc = "sleeping"
    /\ FrameOf("b").attempt = 1
    /\ running = "a"

\* both requests are suspended at once, one in client.post and one in
\* asyncio.sleep, and the one in client.post has made more attempts
C22_WitnessBothSuspended ==
    /\ FrameOf("a").pc = "awaiting_post"
    /\ FrameOf("b").pc = "sleeping"
    /\ FrameOf("a").attempt = MaxRetries + 1
    /\ FrameOf("b").attempt = 1
=============================================================================
